---- MODULE Spec2Model ----
(***************************************************************************)
(* A model of package syno (src/syno.go): the option-based construction of *)
(* a Client (NewClient and the ClientXxx options), request marshaling      *)
(* (AuthLogin, DownloadTaskList, DownloadTaskCreate, dropEmpty), and the   *)
(* request/response exchange of Client.Do and Client.Call.                 *)
(*                                                                         *)
(* Strings that the code only copies or compares (session ids, parameter   *)
(* keys and values, hosts) are TLA+ strings.  URL paths, which the code    *)
(* hands to url.ResolveReference, are sequences of one-byte strings, so    *)
(* that path resolution is computed byte by byte as net/url computes it.   *)
(* The HTTP transport and the typed request objects passed to Call are     *)
(* external collaborators: their answers are chosen nondeterministically.  *)
(***************************************************************************)
EXTENDS Integers, Sequences, FiniteSets, TLC

\* ------------------------------------------------------------------ bounds

\* The longest option list passed to NewClient.
MaxOptions == 3
\* The longest URL path (in bytes) of a base URL or a Request.
MaxPathLen == 3
\* The longest value list of one Params key.
MaxValues == 2

\* ------------------------------------------------------------ small helpers

Range(s) == {s[i] : i \in DOMAIN s}

SeqsUpTo(S, n) == UNION {[1..k -> S] : k \in 0..n}

\* strings.LastIndex(s, "/"), 1-based; 0 when s holds no "/".
LastSlash(s) ==
  LET I == {i \in DOMAIN s : s[i] = "/"}
  IN IF I = {} THEN 0 ELSE CHOOSE i \in I : \A j \in I : j <= i

\* The elements strings.Cut(remaining, "/") yields one after the other.
RECURSIVE CutAll(_)
CutAll(s) ==
  LET I == {i \in DOMAIN s : s[i] = "/"}
  IN IF I = {} THEN <<s>>
     ELSE LET i == CHOOSE k \in I : \A j \in I : k <= j
          IN <<SubSeq(s, 1, i - 1)>> \o CutAll(SubSeq(s, i + 1, Len(s)))

\* -------------------------------------------------------------- errors

\* An error value; the nil error is NoErr.  kind "api" is the type Error,
\* whose code is the integer the API returned.
Err(kind, code) == [kind |-> kind, code |-> code]
NoErr == Err("nil", 0)
errURLMisconfigured == Err("syno: client URL misconfigured", 0)
APIError(code) == Err("api", code)

ErrorUnknown == 100
ErrorInvalidParameter == 101
ErrorInvalidAPI == 102
ErrorInvalidMethod == 103
ErrorUnsupportedVersion == 104
ErrorPermissionDenied == 105
ErrorSessionTimeout == 106
ErrorSessionInterruptedDuplicateLogin == 107

\* ------------------------------------------------------------ url.Values

\* url.Values is a map from key to value list: a function whose DOMAIN is
\* the set of keys present.
NoValues == [k \in {} |-> <<>>]

\* v.Add(k, e)
Add(v, k, e) ==
  [x \in DOMAIN v \cup {k} |->
     IF x = k THEN (IF k \in DOMAIN v THEN v[k] ELSE <<>>) \o <<e>> ELSE v[x]]

\* The map literal url.Values{k1: []string{e1}, ...} of the marshalers.
Single(rec) == [k \in DOMAIN rec |-> <<rec[k]>>]

\* dropEmpty (lines 54-61): every key whose list is one empty string is deleted.
dropEmpty(p) ==
  [k \in {x \in DOMAIN p : ~(Len(p[x]) = 1 /\ p[x][1] = "")} |-> p[k]]

\* The loop of Client.Do that adds every element of every Params list to v.
\* The order in which the keys are visited does not matter: the lists of
\* different keys are independent and each list keeps its own order.
AddAll(v, params) ==
  [k \in DOMAIN v \cup {x \in DOMAIN params : params[x] # <<>>} |->
     (IF k \in DOMAIN v THEN v[k] ELSE <<>>) \o
     (IF k \in DOMAIN params THEN params[k] ELSE <<>>)]

\* Every parameter key of the model, in the byte order sort.Strings gives.
SortedKeys ==
  << "_sid", "account", "additional", "api", "destination", "foo", "format",
     "limit", "method", "offset", "otp_code", "passwd", "password", "session",
     "unzip_password", "uri", "username", "version" >>

\* v.Encode(): the key=value pairs of the query string, sorted by key, the
\* values of one key in list order.  A pair <<k, e>> stands for
\* QueryEscape(k) "=" QueryEscape(e); a key with an empty list yields nothing.
RECURSIVE EncodeFrom(_, _)
EncodeFrom(v, i) ==
  IF i > Len(SortedKeys) THEN <<>>
  ELSE LET k == SortedKeys[i]
       IN (IF k \in DOMAIN v THEN [j \in DOMAIN v[k] |-> <<k, v[k][j]>>] ELSE <<>>)
          \o EncodeFrom(v, i + 1)

Encode(v) == EncodeFrom(v, 1)

\* url.ParseQuery, as the tests use it to read the query the transport got:
\* the values of each key in the order they appear.
RECURSIVE ParseQuery(_)
ParseQuery(q) ==
  IF q = <<>> THEN NoValues
  ELSE LET rest == ParseQuery(Tail(q))
           k == Head(q)[1]
       IN [x \in DOMAIN rest \cup {k} |->
             IF x = k THEN <<Head(q)[2]>> \o (IF k \in DOMAIN rest THEN rest[k] ELSE <<>>)
             ELSE rest[x]]

\* --------------------------------------------------------------- url.URL

\* A *url.URL.  Path is a sequence of bytes; RawQuery is an encoded query.
URL(scheme, user, host, path, query, fragment) ==
  [Scheme |-> scheme, Opaque |-> "", User |-> user, Host |-> host, Path |-> path,
   RawQuery |-> query, Fragment |-> fragment]

\* The nil *url.URL.
NilURL == [Scheme |-> "", Opaque |-> "nil", User |-> "nil", Host |-> "nil", Path |-> <<>>,
           RawQuery |-> <<>>, Fragment |-> "nil"]

\* u.IsAbs()
IsAbs(u) == u.Scheme # ""

\* escape(s, encodePath) and unescape(s, encodePath): "?" is escaped in a
\* path, the other bytes of the model's paths are not.  An escaped path is a
\* sequence of tokens, "%3F" being one token.
escape(p) == [i \in DOMAIN p |-> IF p[i] = "?" THEN "%3F" ELSE p[i]]
unescape(p) == [i \in DOMAIN p |-> IF p[i] = "%3F" THEN "?" ELSE p[i]]

\* u.EscapedPath() of a URL whose RawPath is empty.
EscapedPath(u) == escape(u.Path)

\* The loop of resolvePath over the elements of full: dst is the output
\* built so far (it starts with "/"), first says nothing was written yet.
RECURSIVE ResolveElems(_, _, _, _)
ResolveElems(elems, i, dst, first) ==
  IF i > Len(elems) THEN dst
  ELSE LET elem == elems[i]
       IN IF elem = <<".">> THEN ResolveElems(elems, i + 1, dst, FALSE)
          ELSE IF elem = <<".", ".">>
          THEN LET str == Tail(dst)
                   index == LastSlash(str)
               IN IF index = 0
                  THEN ResolveElems(elems, i + 1, <<"/">>, TRUE)
                  ELSE ResolveElems(elems, i + 1,
                                    <<"/">> \o SubSeq(str, 1, index - 1), first)
          ELSE ResolveElems(elems, i + 1,
                            dst \o (IF first THEN <<>> ELSE <<"/">>) \o elem, FALSE)

\* resolvePath(base, ref) of net/url.
resolvePath(base, ref) ==
  LET full == IF ref = <<>> THEN base
              ELSE IF ref[1] # "/" THEN SubSeq(base, 1, LastSlash(base)) \o ref
              ELSE ref
  IN IF full = <<>> THEN <<>>
     ELSE LET elems == CutAll(full)
              last == elems[Len(elems)]
              dst == ResolveElems(elems, 1, <<"/">>, TRUE)
              r == IF last = <<".">> \/ last = <<".", ".">> THEN dst \o <<"/">> ELSE dst
          IN IF Len(r) > 1 /\ r[2] = "/" THEN Tail(r) ELSE r

\* u.ResolveReference(ref) for a ref that has no Scheme, Host, User or
\* Opaque, which is what Client.Do passes (only Path and RawQuery are set).
ResolveReference(u, ref) ==
  LET inherit == ref.Path = <<>> /\ ref.RawQuery = <<>>
  IN IF ref.Path = <<>> /\ u.Opaque # ""
     THEN [Scheme |-> u.Scheme, Opaque |-> u.Opaque, User |-> "", Host |-> "",
           Path |-> <<>>,
           RawQuery |-> IF inherit THEN u.RawQuery ELSE ref.RawQuery,
           Fragment |-> IF inherit THEN u.Fragment ELSE ""]
     ELSE [Scheme |-> u.Scheme, Opaque |-> "", User |-> u.User, Host |-> u.Host,
           Path |-> unescape(resolvePath(EscapedPath(u), EscapedPath(ref))),
           RawQuery |-> IF inherit THEN u.RawQuery ELSE ref.RawQuery,
           Fragment |-> IF inherit THEN u.Fragment ELSE ""]

\* ------------------------------------------------------- Request, Client

\* A Request (the struct of src/syno.go).  Path is a sequence of bytes.
Request(path, api, version, method, params, sid) ==
  [Path |-> path, API |-> api, Version |-> version, Method |-> method,
   Params |-> params, SID |-> sid]

\* The zero Request, &Request{}.
ZeroRequest == Request(<<>>, "", "", "", NoValues, "")

\* A Client.  transport names an http.RoundTripper; "default" is
\* http.DefaultTransport.
Client(url, transport, sid) == [url |-> url, transport |-> transport, sid |-> sid]

\* ---------------------------------------------------- JSON and responses

\* A JSON value of the envelope's data field ("absent": the field is not
\* there).  An object has at most the members sid and cookie.
JSON(t, s, hasSid, sid, hasCookie, cookie) ==
  [t |-> t, s |-> s, hasSid |-> hasSid, sid |-> sid, hasCookie |-> hasCookie,
   cookie |-> cookie]
JAbsent == JSON("absent", "", FALSE, "", FALSE, "")
JNull == JSON("null", "", FALSE, "", FALSE, "")
JString(s) == JSON("string", s, FALSE, "", FALSE, "")
JBool == JSON("bool", "true", FALSE, "", FALSE, "")
JObject(hasSid, sid, hasCookie, cookie) ==
  JSON("object", "", hasSid, IF hasSid THEN sid ELSE "", hasCookie,
       IF hasCookie THEN cookie ELSE "")

\* The destination passed to Do and Call: nil, a *string or an
\* *AuthLoginResponse, with the value it points to.
Dest(kind, str, sid, cookie) == [kind |-> kind, str |-> str, SID |-> sid, Cookie |-> cookie]
NilDest == Dest("nil", "", "", "")
StringDest(s) == Dest("string", s, "", "")
LoginDest(sid, cookie) == Dest("login", "", sid, cookie)

\* A response body: not JSON at all ("malformed"), or an envelope object.
\* success is "true", "false", "absent" or "bad" (not a JSON boolean);
\* codeKind is "int", "absent" or "bad" (error.code is not an integer).
Body(kind, success, codeKind, code, data) ==
  [kind |-> kind, success |-> success, codeKind |-> codeKind, code |-> code,
   data |-> data]
Malformed == Body("malformed", "absent", "absent", 0, JAbsent)
Envelope(success, codeKind, code, data) ==
  Body("envelope", success, codeKind, IF codeKind = "int" THEN code ELSE 0, data)

\* What transport.RoundTrip returns: an error, or a response with a body.
Resp(err, body) == [err |-> err, body |-> body]
RespErr(e) == Resp(e, Malformed)
RespBody(b) == Resp(NoErr, b)

\* json.NewDecoder(hres.Body).Decode(&synologyResponse): the decoded
\* struct and the error.  A member of the wrong type is reported after the
\* other members were decoded.
Decode(body) ==
  [Success |-> body.kind = "envelope" /\ body.success = "true",
   Code |-> IF body.kind = "envelope" /\ body.codeKind = "int" THEN body.code ELSE 0,
   Data |-> IF body.kind = "envelope" THEN body.data ELSE JAbsent,
   err |-> IF body.kind = "malformed" THEN Err("json: invalid character", 0)
           ELSE IF body.success = "bad" \/ body.codeKind = "bad"
           THEN Err("json: cannot unmarshal", 0)
           ELSE NoErr]

\* json.Unmarshal(raw, data) for a non-nil data: the error and the value
\* data points to afterwards.
Unmarshal(raw, data) ==
  IF raw.t = "absent"
  THEN [err |-> Err("json: unexpected end of JSON input", 0), dest |-> data]
  ELSE IF raw.t = "null" THEN [err |-> NoErr, dest |-> data]
  ELSE IF data.kind = "string"
  THEN IF raw.t = "string" THEN [err |-> NoErr, dest |-> StringDest(raw.s)]
       ELSE [err |-> Err("json: cannot unmarshal", 0), dest |-> data]
  ELSE IF raw.t = "object"
  THEN [err |-> NoErr,
        dest |-> LoginDest(IF raw.hasSid THEN raw.sid ELSE data.SID,
                           IF raw.hasCookie THEN raw.cookie ELSE data.Cookie)]
  ELSE [err |-> Err("json: cannot unmarshal", 0), dest |-> data]

\* ------------------------------------------------------------ Client.Do

\* The outcome of a call: out is "return" or "panic"; err is the error
\* returned; dest is the destination afterwards; sent is the list of
\* requests handed to the transport (at most one), each with the transport
\* that got it.
Outcome(out, err, dest, sent) == [out |-> out, err |-> err, dest |-> dest, sent |-> sent]

\* The parameter set v that Do builds (lines 99-114).
DoValuesCachedFirst(c, r) ==
  AddAll(
    LET v == Add(Add(Add(NoValues, "api", r.API), "version", r.Version), "method", r.Method)
    IN IF c.sid # "" THEN Add(v, "_sid", c.sid)
       ELSE IF r.SID # "" THEN Add(v, "_sid", r.SID)
       ELSE v,
    r.Params)

DoValues(c, r) ==
  AddAll(
    LET v == Add(Add(Add(NoValues, "api", r.API), "version", r.Version), "method", r.Method)
    IN IF r.SID # "" THEN Add(v, "_sid", r.SID)
       ELSE IF c.sid # "" THEN Add(v, "_sid", c.sid)
       ELSE v,
    r.Params)

HTTPRequestReplacesPath(c, r) ==
  [Method |-> "GET", transport |-> c.transport,
   URL |-> [c.url EXCEPT !.Path = r.Path, !.RawQuery = Encode(DoValues(c, r)),
                         !.Fragment = ""]]

\* The http.Request that Do builds (lines 116-123).
HTTPRequest(c, r) ==
  [Method |-> "GET", transport |-> c.transport,
   URL |-> ResolveReference(c.url,
             [Path |-> r.Path, RawQuery |-> Encode(DoValues(c, r))])]

\* Lines 130-147: what Do makes of the transport's answer.
DoDecodePopulatesOnFailure(data, resp) ==
  LET env == Decode(resp.body)
  IN IF resp.err # NoErr THEN [err |-> resp.err, dest |-> data]
     ELSE IF env.err # NoErr THEN [err |-> env.err, dest |-> data]
     ELSE IF data.kind # "nil" THEN
          [err |-> IF env.Success THEN Unmarshal(env.Data, data).err ELSE APIError(env.Code),
           dest |-> Unmarshal(env.Data, data).dest]
     ELSE [err |-> IF env.Success THEN NoErr ELSE APIError(env.Code), dest |-> data]

DoDecodeRequiresData(data, resp) ==
  LET env == Decode(resp.body)
  IN IF resp.err # NoErr THEN [err |-> resp.err, dest |-> data]
     ELSE IF env.err # NoErr THEN [err |-> env.err, dest |-> data]
     ELSE IF ~env.Success THEN [err |-> APIError(env.Code), dest |-> data]
     ELSE Unmarshal(env.Data, data)

DoDecode(data, resp) ==
  LET env == Decode(resp.body)
  IN IF resp.err # NoErr THEN [err |-> resp.err, dest |-> data]
     ELSE IF env.err # NoErr THEN [err |-> env.err, dest |-> data]
     ELSE IF ~env.Success THEN [err |-> APIError(env.Code), dest |-> data]
     ELSE IF data.kind # "nil" THEN Unmarshal(env.Data, data)
     ELSE [err |-> NoErr, dest |-> data]

\* c.Do(r, data), the transport answering resp.  Resolving against a nil
\* base URL dereferences it: a run-time panic, before the transport is
\* called.
Do(c, r, data, resp) ==
  IF c.url = NilURL THEN Outcome("panic", NoErr, data, <<>>)
  ELSE LET d == DoDecode(data, resp)
       IN Outcome("return", d.err, d.dest, <<HTTPRequest(c, r)>>)

\* ----------------------------------------------------------- marshalers

\* What r.MarshalRequest() returns: a Request and an error.
Marshaled(req, err) == [req |-> req, err |-> err]

\* "/webapi/auth.cgi" and "/webapi/DownloadStation/task.cgi"
authLoginPath ==
  <<"/", "w", "e", "b", "a", "p", "i", "/", "a", "u", "t", "h", ".", "c", "g", "i">>
downloadTaskPath ==
  <<"/", "w", "e", "b", "a", "p", "i", "/", "D", "o", "w", "n", "l", "o", "a", "d",
    "S", "t", "a", "t", "i", "o", "n", "/", "t", "a", "s", "k", ".", "c", "g", "i">>

\* AuthLogin.MarshalRequest (lines 234-248); a is an AuthLogin.
AuthLogin(account, password, session, format, otp) ==
  [Account |-> account, Password |-> password, Session |-> session,
   Format |-> format, OTPCode |-> otp]

AuthLoginMarshal(a) ==
  Marshaled(
    Request(authLoginPath, "SYNO.API.Auth", "3", "login",
            dropEmpty(Single([account |-> a.Account, passwd |-> a.Password,
                              session |-> a.Session, format |-> a.Format,
                              otp_code |-> a.OTPCode])),
            ""),
    NoErr)

\* strconv.Itoa on the integers of the model.
Itoa(n) == CASE n = 0 -> "0" [] n = 1 -> "1" [] n = 2 -> "2" [] n = 3 -> "3"
             [] n = -1 -> "-1"

\* strings.Join(l, ",")
RECURSIVE Join(_)
Join(l) ==
  IF l = <<>> THEN ""
  ELSE IF Len(l) = 1 THEN l[1]
  ELSE l[1] \o "," \o Join(Tail(l))

\* DownloadTaskList.MarshalRequest (lines 270-289).
DownloadTaskList(offset, limit, additional) ==
  [Offset |-> offset, Limit |-> limit, Additional |-> additional]

DownloadTaskListMarshal(d) ==
  LET v1 == IF d.Offset # 0 THEN Add(NoValues, "offset", Itoa(d.Offset)) ELSE NoValues
      v2 == IF d.Limit # 0 THEN Add(v1, "limit", Itoa(d.Limit)) ELSE v1
      v3 == IF Len(d.Additional) > 0 THEN Add(v2, "additional", Join(d.Additional)) ELSE v2
  IN Marshaled(Request(downloadTaskPath, "SYNO.DownloadStation.Task", "1", "list", v3, ""),
               NoErr)

\* DownloadTaskCreate.MarshalRequest (lines 301-315).
DownloadTaskCreate(uri, username, password, unzip, destination) ==
  [URI |-> uri, Username |-> username, Password |-> password,
   UnzipPassword |-> unzip, Destination |-> destination]

DownloadTaskCreateMarshal(d) ==
  Marshaled(
    Request(downloadTaskPath, "SYNO.DownloadStation.Task", "1", "create",
            dropEmpty(Single([uri |-> d.URI, username |-> d.Username,
                              password |-> d.Password,
                              unzip_password |-> d.UnzipPassword,
                              destination |-> d.Destination])),
            ""),
    NoErr)

\* ----------------------------------------------------------- Client.Call

CallIgnoresMarshalError(c, m, data, resp) == Do(c, m.req, data, resp)

\* c.Call(r, data), where m is what r.MarshalRequest() returned.
Call(c, m, data, resp) ==
  IF m.err # NoErr THEN Outcome("return", m.err, data, <<>>)
  ELSE Do(c, m.req, data, resp)

\* ------------------------------------------------------- client options

\* A ClientOption, as the value passed to NewClient: kind is "URL"
\* (ClientURL), "RawURL" (ClientRawURL), "Transport" (ClientTransport),
\* "SID" (ClientSID), "Login" (ClientLogin) or "Func" (a caller's own
\* function, which returns err).  Only the argument of its kind matters.
Option(kind, url, raw, transport, sid, login, err) ==
  [kind |-> kind, url |-> url, raw |-> raw, transport |-> transport, sid |-> sid,
   login |-> login, err |-> err]

NoLogin == AuthLogin("", "", "", "", "")
OptURL(u) == Option("URL", u, "", "", "", NoLogin, NoErr)
OptRawURL(raw) == Option("RawURL", NilURL, raw, "", "", NoLogin, NoErr)
OptTransport(t) == Option("Transport", NilURL, "", t, "", NoLogin, NoErr)
OptSID(sid) == Option("SID", NilURL, "", "", sid, NoLogin, NoErr)
OptLogin(l) == Option("Login", NilURL, "", "", "", l, NoErr)
OptFunc(e) == Option("Func", NilURL, "", "", "", NoLogin, e)

\* What applying an option does: the client afterwards, the error the
\* option returns, whether it returned or panicked, the requests it handed
\* to the transport, and how often it assigned c.sid.
Applied(c, err, out, sent, wrote) ==
  [c |-> c, err |-> err, out |-> out, sent |-> sent, wrote |-> wrote]

\* url.Parse on the raw strings of the model.
Parse(raw) ==
  CASE raw = "http://foo.com/" ->
         [url |-> URL("http", "", "foo.com", <<"/">>, <<>>, ""), err |-> NoErr]
    [] raw = "/rel" ->
         [url |-> URL("", "", "", <<"/", "r">>, <<>>, ""), err |-> NoErr]
    [] OTHER ->
         [url |-> NilURL, err |-> Err("parse: missing protocol scheme", 0)]

ClientURL(c, u) == Applied([c EXCEPT !.url = u], NoErr, "return", <<>>, 0)

ClientRawURL(c, raw) ==
  Applied([c EXCEPT !.url = Parse(raw).url], Parse(raw).err, "return", <<>>, 0)

ClientTransport(c, t) == Applied([c EXCEPT !.transport = t], NoErr, "return", <<>>, 0)

ClientSID(c, sid) == Applied([c EXCEPT !.sid = sid], NoErr, "return", <<>>, 1)

\* The Call that ClientLogin makes (lines 194-196).
LoginCall(c, l, resp) ==
  Call(c, AuthLoginMarshal([l EXCEPT !.Format = "sid"]), LoginDest("", ""), resp)

\* ClientLogin(l) applied to c, the transport answering resp.
ClientLogin(c, l, resp) ==
  LET res == LoginCall(c, l, resp)
  IN IF res.out = "panic" \/ res.err # NoErr
     THEN Applied(c, res.err, res.out, res.sent, 0)
     ELSE Applied([c EXCEPT !.sid = res.dest.SID], NoErr, "return", res.sent, 1)

\* The check NewClient makes after its loop (lines 212-215): the error it
\* returns, NoErr when it returns the client.
NewClientCheck(c) ==
  IF c.url = NilURL \/ ~IsAbs(c.url) THEN errURLMisconfigured ELSE NoErr

\* ------------------------------------------------------------------ state

VARIABLES
  pc,         \* "building": NewClient is in its loop; "ready": it returned a
              \* client; "failed": it returned an error; "panicked"
  options,    \* the options NewClient was called with
  idx,        \* the index of the next option the loop of NewClient applies
  c,          \* the Client being built, or the one NewClient returned
  ret,        \* what NewClient returned: [ok, err]
  trips,      \* how often NewClient's options invoked the transport
  sidWrites,  \* how often c.sid was assigned
  log,        \* the options applied so far, in order: [kind, err, out] each
  last        \* the latest Call or Do: its inputs, the transport's answer
              \* and its outcome

vars == <<pc, options, idx, c, ret, trips, sidWrites, log, last>>

\* The record kept of a call: op is "none", "Do", "Call" or "Login"; m is
\* what MarshalRequest returned (for Do, the Request itself); data is the
\* destination as passed; resp is the transport's answer, had it been asked.
Record(op, cl, m, data, resp, res) ==
  [op |-> op, c |-> cl, m |-> m, data |-> data, resp |-> resp, res |-> res]

NoCall ==
  Record("none", Client(NilURL, "default", ""), Marshaled(ZeroRequest, NoErr), NilDest,
         RespErr(NoErr), Outcome("return", NoErr, NilDest, <<>>))

\* ------------------------------------------------------------ input sets

AbsURL == URL("http", "", "foo.com", <<"/">>, <<>>, "")
RelURL == URL("", "", "", <<>>, <<>>, "")

TransportErr == Err("transport", 1)
OptionErr == Err("option", 1)
MarshalErr == Err("marshal", 1)

TheLogin == AuthLogin("account", "password", "", "", "")

\* The options the callers of the model pass to NewClient.
Options ==
  { OptURL(AbsURL), OptURL(RelURL), OptRawURL("http://foo.com/"), OptRawURL(":"),
    OptTransport("t1"), OptSID("s1"), OptLogin(TheLogin), OptFunc(OptionErr) }

\* The transport's answers to a login and to the calls made on a built
\* client.
LoginResponses ==
  { RespErr(TransportErr),
    RespBody(Malformed),
    RespBody(Envelope("false", "int", ErrorPermissionDenied, JAbsent)),
    RespBody(Envelope("true", "absent", 0, JAbsent)),
    RespBody(Envelope("true", "absent", 0, JObject(TRUE, "s2", FALSE, ""))),
    RespBody(Envelope("true", "absent", 0, JObject(FALSE, "", TRUE, "ck"))) }

SmallResponses ==
  { RespErr(TransportErr),
    RespBody(Envelope("false", "int", ErrorSessionTimeout, JAbsent)),
    RespBody(Envelope("true", "absent", 0, JObject(TRUE, "s3", FALSE, ""))) }

SmallRequests ==
  { Request(<<"/", "p">>, "api", "1", "m", NoValues, ""),
    Request(<<"/", "p">>, "api", "1", "m", NoValues, "r1") }

SmallMarshaled ==
  { Marshaled(ZeroRequest, MarshalErr),
    AuthLoginMarshal(TheLogin),
    DownloadTaskListMarshal(DownloadTaskList(1, 2, <<"a", "b">>)) }

SmallDests == { NilDest, LoginDest("old", "") }

\* ------------------------------------------------------------ NewClient

\* NewClient(options...) entered: c := Client{transport: http.DefaultTransport}.
Init ==
  /\ options \in SeqsUpTo(Options, MaxOptions)
  /\ pc = "building"
  /\ idx = 1
  /\ c = Client(NilURL, "default", "")
  /\ ret = [ok |-> FALSE, err |-> NoErr]
  /\ trips = 0
  /\ sidWrites = 0
  /\ log = <<>>
  /\ last = NoCall

LoopTurnContinues(a) ==
  /\ trips' = trips + Len(a.sent)
  /\ sidWrites' = sidWrites + a.wrote
  /\ log' = Append(log, [kind |-> options[idx].kind, err |-> a.err, out |-> a.out])
  /\ IF a.out = "panic"
     THEN /\ pc' = "panicked"
          /\ UNCHANGED <<idx, c, ret>>
     ELSE /\ c' = a.c
          /\ idx' = idx + 1
          /\ ret' = IF a.err # NoErr THEN [ok |-> FALSE, err |-> a.err] ELSE ret
          /\ UNCHANGED pc
  /\ UNCHANGED options

\* One turn of NewClient's loop (lines 207-211), a being what the option
\* did: on an error NewClient returns nil and that error.
LoopTurn(a) ==
  /\ trips' = trips + Len(a.sent)
  /\ sidWrites' = sidWrites + a.wrote
  /\ log' = Append(log, [kind |-> options[idx].kind, err |-> a.err, out |-> a.out])
  /\ IF a.out = "panic"
     THEN /\ pc' = "panicked"
          /\ UNCHANGED <<idx, c, ret>>
     ELSE IF a.err # NoErr
     THEN /\ pc' = "failed"
          /\ ret' = [ok |-> FALSE, err |-> a.err]
          /\ c' = a.c
          /\ UNCHANGED idx
     ELSE /\ c' = a.c
          /\ idx' = idx + 1
          /\ UNCHANGED <<pc, ret>>
  /\ UNCHANGED options

Applying(kind) == pc = "building" /\ idx <= Len(options) /\ options[idx].kind = kind

ApplyClientURL ==
  /\ Applying("URL")
  /\ LoopTurn(ClientURL(c, options[idx].url))
  /\ UNCHANGED last

ApplyClientRawURL ==
  /\ Applying("RawURL")
  /\ LoopTurn(ClientRawURL(c, options[idx].raw))
  /\ UNCHANGED last

ApplyClientTransport ==
  /\ Applying("Transport")
  /\ LoopTurn(ClientTransport(c, options[idx].transport))
  /\ UNCHANGED last

ApplyClientSID ==
  /\ Applying("SID")
  /\ LoopTurn(ClientSID(c, options[idx].sid))
  /\ UNCHANGED last

ApplyClientLogin ==
  /\ Applying("Login")
  /\ \E resp \in LoginResponses :
       /\ LoopTurn(ClientLogin(c, options[idx].login, resp))
       /\ last' = Record("Login", c,
                         AuthLoginMarshal([options[idx].login EXCEPT !.Format = "sid"]),
                         LoginDest("", ""), resp,
                         LoginCall(c, options[idx].login, resp))

\* A caller's own option function that returns an error.
ApplyFunc ==
  /\ Applying("Func")
  /\ LoopTurn(Applied(c, options[idx].err, "return", <<>>, 0))
  /\ UNCHANGED last

\* The loop is over: NewClient checks the URL and returns (lines 212-215).
NewClientReturn ==
  /\ pc = "building"
  /\ idx > Len(options)
  /\ pc' = IF NewClientCheck(c) = NoErr THEN "ready" ELSE "failed"
  /\ ret' = [ok |-> NewClientCheck(c) = NoErr, err |-> NewClientCheck(c)]
  /\ UNCHANGED <<options, idx, c, trips, sidWrites, log, last>>

\* ------------------------------------------------------- calls on a client

DoStepCachesSID(Rs, Ds, Ts) ==
  /\ pc = "ready"
  /\ \E r \in Rs, data \in Ds, resp \in Ts :
       /\ last' = Record("Do", c, Marshaled(r, NoErr), data, resp, Do(c, r, data, resp))
       /\ c' = IF r.SID # "" THEN [c EXCEPT !.sid = r.SID] ELSE c
  /\ UNCHANGED <<pc, options, idx, ret, trips, sidWrites, log>>

\* c.Do(r, data) on the client NewClient returned.
DoStep(Rs, Ds, Ts) ==
  /\ pc = "ready"
  /\ \E r \in Rs, data \in Ds, resp \in Ts :
       last' = Record("Do", c, Marshaled(r, NoErr), data, resp, Do(c, r, data, resp))
  /\ UNCHANGED <<pc, options, idx, c, ret, trips, sidWrites, log>>

\* c.Call(r, data) on the client NewClient returned, m being what
\* r.MarshalRequest() returns.
CallStep(Ms, Ds, Ts) ==
  /\ pc = "ready"
  /\ \E m \in Ms, data \in Ds, resp \in Ts :
       last' = Record("Call", c, m, data, resp, Call(c, m, data, resp))
  /\ UNCHANGED <<pc, options, idx, c, ret, trips, sidWrites, log>>

DoSmall == DoStep(SmallRequests, SmallDests, SmallResponses)
CallSmall == CallStep(SmallMarshaled, SmallDests, SmallResponses)

Next ==
  \/ ApplyClientURL
  \/ ApplyClientRawURL
  \/ ApplyClientTransport
  \/ ApplyClientSID
  \/ ApplyClientLogin
  \/ ApplyFunc
  \/ NewClientReturn
  \/ DoSmall
  \/ CallSmall

Spec == Init /\ [][Next]_vars

\* ------------------------------------------- single calls, inputs drawn

\* What res holds while the call has not returned.
Pending(data) == Outcome("pending", NoErr, data, <<>>)

\* The envelopes a transport may answer with: every combination of the
\* success member, the error.code member and the data member.
Datas ==
  { JAbsent, JNull, JString("X"), JBool, JObject(TRUE, "s2", FALSE, ""),
    JObject(FALSE, "", TRUE, "ck"), JObject(TRUE, "s2", TRUE, "ck") }

Responses ==
  { RespErr(TransportErr), RespBody(Malformed) } \cup
  { RespBody(Envelope(su, ck, code, d)) :
      su \in {"true", "false", "absent", "bad"},
      ck \in {"int", "absent", "bad"},
      code \in {0, 42, ErrorUnknown},
      d \in Datas }

Dests == { NilDest, StringDest("old"), LoginDest("old", "oldck") }

\* The typed request objects and the caller's own marshalers handed to Call.
Marshalers ==
  { Marshaled(ZeroRequest, MarshalErr),
    Marshaled(Request(<<"/", "p">>, "api", "1", "m", NoValues, "r1"), NoErr),
    AuthLoginMarshal(TheLogin) }

\* Hand-built Params: any keys among "_sid" and "foo", each with a list of
\* at most MaxValues values.
ParamsSet ==
  UNION { [K -> SeqsUpTo({"", "x"}, MaxValues)] : K \in SUBSET {"_sid", "foo"} }

Fields == {"", "x"}

TypedMarshaled ==
  { AuthLoginMarshal(AuthLogin(a, p, s, f, o)) :
      a \in Fields, p \in Fields, s \in Fields, f \in Fields, o \in Fields } \cup
  { DownloadTaskListMarshal(DownloadTaskList(o, l, ad)) :
      o \in {0, 1}, l \in {0, 2}, ad \in SeqsUpTo({"", "a"}, MaxValues) } \cup
  { DownloadTaskCreateMarshal(DownloadTaskCreate(u, n, p, z, d)) :
      u \in Fields, n \in Fields, p \in Fields, z \in Fields, d \in Fields }

OkResp == RespBody(Envelope("true", "absent", 0, JString("X")))

\* Paths: of a Request, any bytes; of a base URL, empty or rooted.
PathBytes == {"/", ".", "a", "?"}
RequestPaths == SeqsUpTo(PathBytes, MaxPathLen)
BasePaths == {p \in SeqsUpTo({"/", "a"}, MaxPathLen) : p = <<>> \/ p[1] = "/"}

\* "mailto:x@y": an absolute URL with an opaque part.
OpaqueURL == [Scheme |-> "mailto", Opaque |-> "x@y", User |-> "", Host |-> "",
              Path |-> <<>>, RawQuery |-> <<>>, Fragment |-> ""]

BaseURLs ==
  { URL("http", "", "foo.com:80", p, <<>>, "") : p \in BasePaths } \cup
  { URL("https", "user", "foo.com", <<"/", "a">>, << <<"q", "1">> >>, "frag"),
    OpaqueURL }

\* A call and its inputs: the client, what MarshalRequest returns (for Do
\* the Request), the destination and the transport's answer.
Input(op, cl, m, data, resp) == [op |-> op, c |-> cl, m |-> m, data |-> data, resp |-> resp]

\* Calls that differ in the transport's answer and in the destination.
DecodeInputs ==
  { Input("Do", Client(AbsURL, "default", "s1"), Marshaled(r, NoErr), d, t) :
      r \in SmallRequests, d \in Dests, t \in Responses } \cup
  { Input("Call", Client(AbsURL, "default", "s1"), m, d, t) :
      m \in Marshalers, d \in Dests, t \in Responses }

\* Calls that differ in the session ids and in the parameters.
ParamsInputs ==
  { Input("Do", Client(AbsURL, "default", cs),
          Marshaled(Request(<<"/", "p">>, "api", "1", "m", ps, rs), NoErr), NilDest, OkResp) :
      cs \in {"", "s1"}, rs \in {"", "r1"}, ps \in ParamsSet } \cup
  { Input("Call", Client(AbsURL, "default", cs), m, NilDest, OkResp) :
      cs \in {"", "s1"}, m \in TypedMarshaled }

\* Calls that differ in the base URL and in the Request's path.
URLInputs ==
  { Input("Do", Client(u, "default", ""),
          Marshaled(Request(p, "api", "1", "m", NoValues, ""), NoErr), NilDest, OkResp) :
      u \in BaseURLs, p \in RequestPaths }

\* A client built by NewClient(ClientURL(u), ClientSID(sid)), on which one
\* Do or Call has been invoked and has not returned yet.
InitCalls ==
  /\ \E in \in DecodeInputs \cup ParamsInputs \cup URLInputs :
       /\ c = in.c
       /\ options = <<OptURL(in.c.url), OptSID(in.c.sid)>>
       /\ last = Record(in.op, in.c, in.m, in.data, in.resp, Pending(in.data))
  /\ pc = "calling"
  /\ idx = 3
  /\ ret = [ok |-> TRUE, err |-> NoErr]
  /\ trips = 0
  /\ sidWrites = 1
  /\ log = << [kind |-> "URL", err |-> NoErr, out |-> "return"],
              [kind |-> "SID", err |-> NoErr, out |-> "return"] >>

\* The pending c.Do(r, data) runs and returns.
DoReturn ==
  /\ pc = "calling"
  /\ last.op = "Do"
  /\ last' = [last EXCEPT !.res = Do(c, last.m.req, last.data, last.resp)]
  /\ pc' = "ready"
  /\ UNCHANGED <<options, idx, c, ret, trips, sidWrites, log>>

\* The pending c.Call(r, data) runs and returns.
CallReturn ==
  /\ pc = "calling"
  /\ last.op = "Call"
  /\ last' = [last EXCEPT !.res = Call(c, last.m, last.data, last.resp)]
  /\ pc' = "ready"
  /\ UNCHANGED <<options, idx, c, ret, trips, sidWrites, log>>

NextCalls ==
  \/ DoReturn
  \/ CallReturn

SpecCalls == InitCalls /\ [][NextCalls]_vars

\* ----------------------------------------------------------------------
\* Properties of a single Do or Call (checked under SpecCalls)
\* ----------------------------------------------------------------------

\* The latest call has returned after handing one request to the transport.
Sent == last.op # "none" /\ last.res.out = "return" /\ Len(last.res.sent) = 1

\* The URL the transport got, and its query as url.ParseQuery reads it.
SentURL == last.res.sent[1].URL
SentQuery == ParseQuery(SentURL.RawQuery)

\* The values the query holds for key k (none when k is absent).
QueryValues(k) == IF k \in DOMAIN SentQuery THEN SentQuery[k] ELSE <<>>

\* The values the Request's own Params hold for key k.
ParamValues(k) ==
  IF k \in DOMAIN last.m.req.Params THEN last.m.req.Params[k] ELSE <<>>

\* The session id Do resolves: Request.SID, else the cached one, else none.
ResolvedSID ==
  IF last.m.req.SID # "" THEN <<last.m.req.SID>>
  ELSE IF last.c.sid # "" THEN <<last.c.sid>>
  ELSE <<>>

\* C1 as stated: whatever the Params, the query's _sid is exactly
\* Request.SID when that is non-empty, else exactly the cached session id
\* when that is non-empty, and no _sid is sent when both are empty.
C1_SidExactlyResolved ==
  Sent => /\ QueryValues("_sid") = ResolvedSID
          /\ (ResolvedSID = <<>> => "_sid" \notin DOMAIN SentQuery)

\* C1 amended: the query's _sid values are the resolved session id
\* (Request.SID when non-empty, else the cached id when non-empty, else
\* none) followed by the values the Params themselves give for _sid; so
\* with no _sid values in Params the query's _sid is exactly the resolved
\* id, and is absent when both ids are empty.
C1_SidPrecedence ==
  Sent => /\ QueryValues("_sid") = ResolvedSID \o ParamValues("_sid")
          /\ ("_sid" \in DOMAIN SentQuery <=> ResolvedSID \o ParamValues("_sid") # <<>>)
          /\ (ParamValues("_sid") = <<>> => QueryValues("_sid") = ResolvedSID)

\* C1 witness: both ids are set and differ, the Params bring a _sid of
\* their own, and the request's id comes first in the query.
C1_Witness ==
  /\ Sent
  /\ last.op = "Do"
  /\ last.m.req.SID = "r1"
  /\ last.c.sid = "s1"
  /\ ParamValues("_sid") = <<"x">>
  /\ QueryValues("_sid") = <<"r1", "x">>

\* C2 as stated: no request sent through Do or Call carries a Params key
\* whose value list is exactly one empty string.
C2_NoEmptyParamSent ==
  Sent => \A k \in DOMAIN last.m.req.Params : QueryValues(k) # <<"">>

HasDotSegment(p) == \E e \in Range(CutAll(p)) : e = <<".">> \/ e = <<".", ".">>

Decoded ==
  /\ last.op # "none"
  /\ last.res.out = "return"
  /\ last.m.err = NoErr
  /\ last.resp.err = NoErr
  /\ last.resp.body.kind = "envelope"
  /\ last.resp.body.success # "bad"
  /\ last.resp.body.codeKind # "bad"

\* C6: when the decoded envelope has success=false, or no success member,
\* Do returns the API Error whose code is the envelope's error.code (0 when
\* there is none), a non-nil error, and leaves the destination as it was,
\* whatever the data member holds.
C6_FailureReturnsAPIError ==
  (Decoded /\ last.resp.body.success \in {"false", "absent"}) =>
     /\ last.res.err = APIError(last.resp.body.code)
     /\ last.res.err # NoErr
     /\ last.res.dest = last.data

\* C6 witness: no success member, error.code 100, a data member that would
\* fit the destination; Do returned ErrorUnknown and the destination is
\* untouched.
C6_Witness ==
  /\ Decoded
  /\ last.op = "Do"
  /\ last.resp.body.success = "absent"
  /\ last.resp.body.codeKind = "int"
  /\ last.resp.body.code = ErrorUnknown
  /\ last.resp.body.data = JString("X")
  /\ last.data = StringDest("old")
  /\ last.res.err = APIError(ErrorUnknown)
  /\ last.res.dest = StringDest("old")

\* C7: when the transport succeeds and the envelope has success=true, Do
\* returns nil with no destination whatever the data member is, and with a
\* destination of data's shape it returns nil and the destination holds
\* data's value (a string for a *string, the sid and cookie members for an
\* *AuthLoginResponse).
C7_SuccessDecodesData ==
  (Decoded /\ last.resp.body.success = "true") =>
     LET d == last.resp.body.data
     IN /\ last.data.kind = "nil" => (last.res.err = NoErr /\ last.res.dest = last.data)
        /\ (last.data.kind = "string" /\ d.t = "string") =>
             (last.res.err = NoErr /\ last.res.dest = StringDest(d.s))
        /\ (last.data.kind = "login" /\ d.t = "object" /\ d.hasSid /\ d.hasCookie) =>
             (last.res.err = NoErr /\ last.res.dest = LoginDest(d.sid, d.cookie))

\* C7 witness: success=true with data "X", decoded into a string
\* destination that held "old": Do returned nil and it now holds "X".
C7_Witness ==
  /\ Decoded
  /\ last.op = "Do"
  /\ last.resp.body.success = "true"
  /\ last.resp.body.data = JString("X")
  /\ last.data = StringDest("old")
  /\ last.res.err = NoErr
  /\ last.res.dest = StringDest("X")

\* C8: when MarshalRequest fails, Call returns exactly that error, does not
\* invoke the transport and leaves the destination alone; when it succeeds,
\* the outcome of Call is the outcome of Do on the produced Request and the
\* given destination, the transport being invoked at most once.
C8_CallForwardsToDo ==
  (last.op = "Call" /\ last.res.out # "pending") =>
     /\ last.m.err # NoErr =>
          /\ last.res.out = "return"
          /\ last.res.err = last.m.err
          /\ last.res.sent = <<>>
          /\ last.res.dest = last.data
     /\ last.m.err = NoErr =>
          /\ last.res = Do(last.c, last.m.req, last.data, last.resp)
          /\ Len(last.res.sent) <= 1

\* C8 witness: a Call whose marshaler failed has returned the marshaling
\* error without a request to the transport.
C8_Witness ==
  /\ last.op = "Call"
  /\ last.res.out = "return"
  /\ last.m.err = MarshalErr
  /\ last.res.err = MarshalErr
  /\ last.res.sent = <<>>

\* ----------------------------------------------------------------------
\* Properties of NewClient and of the client it returns (checked under Spec)
\* ----------------------------------------------------------------------

\* The base URL a list of options leaves when each of them is applied.
RECURSIVE URLAfter(_, _)
URLAfter(opts, u) ==
  IF opts = <<>> THEN u
  ELSE URLAfter(Tail(opts),
                IF Head(opts).kind = "URL" THEN Head(opts).url
                ELSE IF Head(opts).kind = "RawURL" THEN Parse(Head(opts).raw).url
                ELSE u)

\* C3 as stated: when the options leave the base URL unset or relative,
\* NewClient returns a nil client and an error (it neither returns a client
\* nor panics) and the transport is never invoked during the construction,
\* also when the options contain a ClientLogin.
C3_BadURLFailsBeforeNetwork ==
  LET u == URLAfter(options, NilURL)
  IN (u = NilURL \/ ~IsAbs(u)) =>
        /\ trips = 0
        /\ pc \notin {"ready", "panicked"}
        /\ pc = "failed" => (~ret.ok /\ ret.err # NoErr)

\* A ClientLogin is the option applied last and nothing was called since.
JustLoggedIn ==
  /\ last.op = "Login"
  /\ Len(log) > 0
  /\ log[Len(log)].kind = "Login"

\* The transport's answer makes the login's Do return nil.
LoginAnswered ==
  /\ last.resp.err = NoErr
  /\ last.resp.body.kind = "envelope"
  /\ last.resp.body.success = "true"
  /\ last.resp.body.codeKind # "bad"
  /\ last.resp.body.data.t = "object"

\* C4 as stated: a ClientLogin applied during NewClient hands exactly one
\* request to the transport configured at that point; if the login succeeds
\* the cached session id is the response's sid member, and if the transport
\* fails NewClient returns nil and exactly the transport's error.
C4_LoginMakesOneRequest ==
  JustLoggedIn =>
     /\ Len(last.res.sent) = 1
     /\ last.res.sent[1].transport = last.c.transport
     /\ last.resp.err # NoErr =>
          (pc = "failed" /\ ~ret.ok /\ ret.err = last.resp.err)
     /\ LoginAnswered =>
          c.sid = (IF last.resp.body.data.hasSid THEN last.resp.body.data.sid ELSE "")

\* C9 as stated: whatever the options, the cached session id is assigned
\* at most once, and no Do or Call on the returned client changes the
\* client.
C9_SidWrittenAtMostOnce ==
  /\ sidWrites <= 1
  /\ (pc = "ready" /\ last.op \in {"Do", "Call"}) => c = last.c

\* The assignments to c.sid that the applied options account for: one for
\* each ClientSID and one for each ClientLogin that returned nil.
SidOptions ==
  {i \in DOMAIN log :
     \/ log[i].kind = "SID"
     \/ log[i].kind = "Login" /\ log[i].err = NoErr /\ log[i].out = "return"}

\* C9 amended: the cached session id is assigned only during construction,
\* once by each ClientSID option applied and once by each ClientLogin
\* option that succeeds (so several times when several are given), and
\* after NewClient has returned no Do or Call, successful or failing,
\* changes the client's cached session id, base URL or transport.
C9_SidWrittenOnlyByOptions ==
  /\ [](sidWrites = Cardinality(SidOptions))
  /\ [][pc = "ready" => (c' = c /\ sidWrites' = sidWrites)]_vars

\* C9 witness: two options assigned the session id, NewClient returned the
\* client, and a Do on it has returned an error, the client being as it was.
C9_Witness ==
  /\ pc = "ready"
  /\ sidWrites = 2
  /\ last.op = "Do"
  /\ last.res.err = TransportErr
  /\ c = last.c
  /\ c.sid = "s2"

\* C10: NewClient applies its options in the order given and stops at the
\* first that fails: the options applied are a prefix of those given, only
\* the last applied can have failed, NewClient then returns nil and exactly
\* that option's error, the transport was invoked at most once for each
\* ClientLogin applied, and the URL check is reached only when every option
\* was applied and succeeded.
C10_StopsAtFirstFailure ==
  /\ Len(log) <= Len(options)
  /\ \A i \in DOMAIN log : log[i].kind = options[i].kind
  /\ \A i \in DOMAIN log : i < Len(log) => (log[i].err = NoErr /\ log[i].out = "return")
  /\ (Len(log) > 0 /\ log[Len(log)].out = "return" /\ log[Len(log)].err # NoErr) =>
        (pc = "failed" /\ ~ret.ok /\ ret.err = log[Len(log)].err)
  /\ trips <= Cardinality({i \in DOMAIN log : log[i].kind = "Login"})
  /\ (pc = "ready" \/ (pc = "failed" /\ ret.err = errURLMisconfigured)) =>
        /\ Len(log) = Len(options)
        /\ \A i \in DOMAIN log : log[i].err = NoErr /\ log[i].out = "return"

\* C10 witness: the second of three options failed; NewClient returned its
\* error and the ClientLogin after it made no request.
C10_Witness ==
  /\ pc = "failed"
  /\ Len(options) = 3
  /\ options[2].kind = "Func"
  /\ options[3].kind = "Login"
  /\ Len(log) = 2
  /\ ret = [ok |-> FALSE, err |-> OptionErr]
  /\ trips = 0

====
